---- MODULE Spec2Model ----
(***************************************************************************)
(* dd-bot-rs: DeepL translation bot for Discord (src/main.rs).             *)
(*                                                                         *)
(* The process starts in main(), which checks the two credentials and then *)
(* runs the gateway client.  Every inbound message event is handled by     *)
(* Handler::message in a task of its own; the tasks share only the         *)
(* process environment, which nothing writes after startup.                *)
(*                                                                         *)
(* Strings the program builds with format! are sequences of their pieces,  *)
(* message contents are sequences of characters, a channel topic is the    *)
(* JSON value it denotes (or garbage).                                     *)
(***************************************************************************)
EXTENDS Integers, Sequences, FiniteSets, TLC

VARIABLES
    proc,       \* main(): "init", "running" or "exited"
    env,        \* the process environment after dotenv
    workers,    \* worker threads of the tokio runtime
    pc,         \* per message: where Handler::message stands
    msg,        \* per message: [bot, content] of the inbound event
    chan,       \* per message: what msg.channel(..) / guild() / topic gave
    config,     \* per message: the DdBotChannelConfig in use
    primary,    \* per message: Result of the first deepl_translate
    reverse,    \* per message: Result of the second deepl_translate
    calls,      \* per message: the translate requests sent, in order
    inflight,   \* per message: translate requests sent and not yet returned
    arm,        \* per message: the arm create_reply_message took
    decision,   \* per message: Option<String> of create_reply_message
    replies,    \* per message: the msg.reply calls made, in order
    logs        \* per message: the tracing events written, in order

vars == <<proc, env, workers, pc, msg, chan, config, primary, reverse, calls,
          inflight, arm, decision, replies, logs>>

----------------------------------------------------------------------------
(* Bounds of the model *)

\* Messages whose handling may overlap.
NumMsgs == 2

\* Longest translations list a response of the service carries.
MaxEntries == 2

\* Most worker threads the runtime is built with (one per core).
MaxWorkers == 2

Msgs == 1..NumMsgs

\* Message 1 ranges over every input class; the messages handled next to it
\* range over a subset (a plain candidate message on a configured channel).
Wide(m) == m = 1

----------------------------------------------------------------------------
(* Values *)

Unset == "<unset>"

NoMsg     == [bot |-> FALSE, content |-> << >>]
NoChan    == [kind |-> "none", json |-> FALSE, default_lang |-> [t |-> "missing", v |-> ""],
              target_lang |-> [t |-> "missing", v |-> ""]]
NoConfig  == [default_lang |-> Unset, target_lang |-> Unset]
NoResult  == [state |-> "none", err |-> "", translations |-> << >>]
None      == [some |-> FALSE, at |-> "return", text |-> << >>]
Some(t)   == [some |-> TRUE, at |-> "return", text |-> t]
\* An index out of bounds unwinds the handler's task; no value is returned.
Panic     == [some |-> FALSE, at |-> "panic", text |-> << >>]
\* The function stands at its own deepl_translate call; no value yet.
Calling   == [some |-> FALSE, at |-> "call", text |-> << >>]

Ok(ts)    == [state |-> "ok", err |-> "", translations |-> ts]
Err(e)    == [state |-> "err", err |-> e, translations |-> << >>]

\* Letter case of the language codes the model uses.
Upper(c) ==
    CASE c = "en" -> "EN"
      [] c = "ja" -> "JA"
      [] c = "nl" -> "NL"
      [] OTHER    -> c

----------------------------------------------------------------------------
(* Url::parse, as far as the filter needs it: a string parses as an        *)
(* absolute URL when it starts with a scheme (a letter, then letters,      *)
(* digits, '+', '-', '.') followed by ':'.  Without a scheme the parse     *)
(* fails (relative URL without a base).  Special schemes, which also need  *)
(* a host, do not occur among the contents below.                          *)

Alpha      == {"a", "b"}
Digit      == {"1"}
SchemeChar == Alpha \cup Digit \cup {"+", "-", "."}

UrlParseOk(s) ==
    \E i \in 2..Len(s) :
        /\ s[i] = ":"
        /\ s[1] \in Alpha
        /\ \A j \in 1..(i-1) : s[j] \in SchemeChar

----------------------------------------------------------------------------
(* serde_json::from_str::<DdBotChannelConfig>(topic): Ok only for JSON     *)
(* with both fields present and both strings; the strings are taken as     *)
(* they are.                                                               *)

JStr(s)  == [t |-> "str", v |-> s]
JNum     == [t |-> "num", v |-> ""]
JMissing == [t |-> "missing", v |-> ""]

Topic(d, t) == [kind |-> "topic", json |-> TRUE, default_lang |-> d, target_lang |-> t]
Garbage     == [kind |-> "topic", json |-> FALSE, default_lang |-> JMissing,
                target_lang |-> JMissing]
Absent(k)   == [kind |-> k, json |-> FALSE, default_lang |-> JMissing,
                target_lang |-> JMissing]

from_str(topic) ==
    IF topic.json /\ topic.default_lang.t = "str" /\ topic.target_lang.t = "str"
    THEN Some([default_lang |-> topic.default_lang.v, target_lang |-> topic.target_lang.v])
    ELSE None

\* env::var(name).unwrap_or(String::from("JA"))
var_or(e, name, dflt) == IF e[name] = Unset THEN dflt ELSE e[name]

default_config(e) ==
    [default_lang |-> var_or(e, "DEFAULT_LANGUAGE", "JA"),
     target_lang  |-> var_or(e, "TARGET_LANGUAGE", "JA")]

\* The config get_language_config returns for a channel lookup outcome.
get_language_config(e, c) ==
    IF c.kind \in {"lookup_failed", "private", "no_topic"}
    THEN default_config(e)
    ELSE IF from_str(c).some THEN from_str(c).text ELSE default_config(e)

\* The error! events of get_language_config (none for an unparsable topic).
config_logs(c) ==
    IF c.kind \in {"lookup_failed", "private", "no_topic"}
    THEN << "error: failed to get channel" >>
    ELSE << >>

----------------------------------------------------------------------------
(* deepl_translate: what the HTTP exchange gave -> Result                  *)

deepl_translate(net) ==
    CASE net.kind = "connect"  -> Err("Failed to connect to DeepL API")
      [] net.kind = "status"   -> Err("Server error")
      [] net.kind = "bad_body" -> Err("decode")
      [] OTHER                 -> Ok(net.translations)

Net(k, ts) == [kind |-> k, translations |-> ts]

Entry(txt, lang) == [text |-> txt, detected_source_language |-> lang]

\* A translations list of n entries whose first entry is e.
Entries(e, n) == [i \in 1..n |-> IF i = 1 THEN e ELSE Entry("extra", "EN")]

NetFailures == {Net("connect", << >>), Net("status", << >>), Net("bad_body", << >>)}

----------------------------------------------------------------------------
(* create_reply_message *)

\* Handler::message's notice when the first translate call failed.
FailNotice == << "Failed to translate using DeepL" >>

\* The backquote character of the format strings.
BQ == "<backquote>"

\* "`{}: ` {} \n`{}: ` {} \n(translated from `{}`)"
fmt_both(cfg, translation, rev) ==
    << BQ, cfg.target_lang, ": ", BQ, " ", translation.text, " \n", BQ,
       cfg.default_lang, ": ", BQ, " ", rev.text, " \n(translated from ", BQ,
       translation.detected_source_language, BQ, ")" >>

\* "Failed to translate to `{}`"
fmt_both_failed(cfg) ==
    << "Failed to translate to ", BQ, cfg.default_lang, BQ >>

\* "`{}: ` {}"
fmt_reverse(cfg, rev) ==
    << BQ, cfg.default_lang, ": ", BQ, " ", rev.text >>

\* "Failed to translate `{}` to `{}`"
fmt_reverse_failed(cfg, original_text) ==
    << "Failed to translate ", BQ >> \o original_text
        \o << BQ, " to ", BQ, cfg.default_lang, BQ >>

\* "`{}: {}`"
fmt_normal(cfg, translation) ==
    << BQ, cfg.target_lang, ": ", translation.text, BQ >>

\* The default_lang test made first: the plain arm wins when both match.
Branch_default_first(translation, cfg) ==
    IF /\ translation.detected_source_language /= cfg.target_lang
       /\ translation.detected_source_language /= cfg.default_lang
    THEN "both"
    ELSE IF translation.detected_source_language = cfg.default_lang
         THEN "normal"
         ELSE "reverse"

\* The else-if comparing with default_lang for target_lang.
Branch_else_if_default(translation, cfg) ==
    IF /\ translation.detected_source_language /= cfg.target_lang
       /\ translation.detected_source_language /= cfg.default_lang
    THEN "both"
    ELSE IF translation.detected_source_language = cfg.default_lang
         THEN "reverse"
         ELSE "normal"

\* Which arm of the if / else if / else the single translation selects.
Branch(translation, cfg) ==
    IF /\ translation.detected_source_language /= cfg.target_lang
       /\ translation.detected_source_language /= cfg.default_lang
    THEN "both"
    ELSE IF translation.detected_source_language = cfg.target_lang
         THEN "reverse"
         ELSE "normal"

\* The guard with > 2 for > 1.
multiple_translations_off_by_one(deepl_response) ==
    Len(deepl_response.translations) > 2

\* deepl_response.translations.len() > 1
multiple_translations(deepl_response) ==
    Len(deepl_response.translations) > 1

\* The arm create_reply_message reaches for this response: "none" when it
\* returns or panics before the comparison.
taken_arm(deepl_response, cfg) ==
    IF multiple_translations(deepl_response) \/ Len(deepl_response.translations) = 0
    THEN "none"
    ELSE Branch(deepl_response.translations[1], cfg)

\* A failed second call giving up the reply.
after_reverse_err_none(rev, on_ok, on_err) ==
    CASE rev.state = "none" -> Calling
      [] rev.state = "err"  -> None
      [] OTHER              -> IF Len(rev.translations) = 0 THEN Panic ELSE Some(on_ok)

\* The Result of the deepl_translate call inside create_reply_message;
\* rev.state = "none" while that call has not returned.
after_reverse(rev, on_ok, on_err) ==
    CASE rev.state = "none" -> Calling
      [] rev.state = "err"  -> Some(on_err)
      [] OTHER              -> IF Len(rev.translations) = 0 THEN Panic ELSE Some(on_ok)

\* The third-language arm keeping the first translation when the second
\* call fails.
create_reply_message_keeps_primary(deepl_response, cfg, original_text, rev) ==
    IF multiple_translations(deepl_response) THEN None
    ELSE IF Len(deepl_response.translations) = 0 THEN Panic
    ELSE LET translation == deepl_response.translations[1]
         IN CASE Branch(translation, cfg) = "both" ->
                   after_reverse(rev,
                                 fmt_both(cfg, translation, rev.translations[1]),
                                 fmt_normal(cfg, translation) \o fmt_both_failed(cfg))
              [] Branch(translation, cfg) = "reverse" ->
                   after_reverse(rev,
                                 fmt_reverse(cfg, rev.translations[1]),
                                 fmt_reverse_failed(cfg, original_text))
              [] OTHER -> Some(fmt_normal(cfg, translation))

\* create_reply_message, run as far as rev allows: with rev = NoResult up to
\* its return or its deepl_translate call, with the call's Result to its end.
create_reply_message(deepl_response, cfg, original_text, rev) ==
    IF multiple_translations(deepl_response) THEN None
    ELSE IF Len(deepl_response.translations) = 0 THEN Panic
    ELSE LET translation == deepl_response.translations[1]
         IN CASE Branch(translation, cfg) = "both" ->
                   after_reverse(rev,
                                 fmt_both(cfg, translation, rev.translations[1]),
                                 fmt_both_failed(cfg))
              [] Branch(translation, cfg) = "reverse" ->
                   after_reverse(rev,
                                 fmt_reverse(cfg, rev.translations[1]),
                                 fmt_reverse_failed(cfg, original_text))
              [] OTHER -> Some(fmt_normal(cfg, translation))

----------------------------------------------------------------------------
(* Inputs *)

Contents(m) ==
    IF Wide(m)
    THEN { << >>,                   \* empty (an image post)
           << "a", ":", "b" >>,     \* a link
           << "1", ":", "a" >> }    \* text with a colon, no scheme
    ELSE { << "a", " ", "b" >> }    \* plain text

ChannelOutcomes(m) ==
    IF Wide(m)
    THEN { Absent("lookup_failed"), Absent("private"), Absent("no_topic"),
           Garbage,
           Topic(JStr("EN"), JMissing),
           Topic(JNum, JStr("JA")),
           Topic(JStr("EN"), JStr("JA")),
           Topic(JStr("en"), JStr("ja")),
           Topic(JStr(""), JStr("JA")) }
    ELSE { Topic(JStr("EN"), JStr("JA")) }

Langs == {"EN", "JA", "NL"}

PrimaryNets(m) ==
    IF Wide(m)
    THEN NetFailures
         \cup { Net("ok", Entries(Entry("T", l), 1)) : l \in Langs }
         \cup { Net("ok", Entries(Entry("T", "EN"), n)) : n \in (0..MaxEntries) \ {1} }
    ELSE { Net("connect", << >>) }
         \cup { Net("ok", Entries(Entry("T", "JA"), 1)) }

ReverseNets(m) ==
    IF Wide(m)
    THEN NetFailures \cup { Net("ok", Entries(Entry("R", "JA"), n)) : n \in 0..MaxEntries }
    ELSE { Net("ok", Entries(Entry("R", "JA"), 1)) }

\* Whether the platform accepts a reply.
Deliveries(m) == IF Wide(m) THEN BOOLEAN ELSE {TRUE}

EnvNames == {".env", "DEEPL_API_KEY", "DISCORD_TOKEN", "DEFAULT_LANGUAGE", "TARGET_LANGUAGE"}

Envs ==
    { e \in [EnvNames -> {Unset, "set", "EN"}] :
        /\ e[".env"] \in {Unset, "set"}
        /\ e["DEEPL_API_KEY"] \in {Unset, "set"}
        /\ e["DISCORD_TOKEN"] \in {Unset, "set"}
        /\ e["DEFAULT_LANGUAGE"] \in {Unset, "EN"}
        /\ e["TARGET_LANGUAGE"] \in {Unset} }

----------------------------------------------------------------------------
(* The state machine *)

\* Where a handler occupies a worker thread without yielding it: from the
\* resumption after get_language_config(..).await through the blocking
\* deepl_translate calls to the next .await (msg.reply).  ureq's call is
\* synchronous, so the thread is not released while a request is outstanding.
Held == {"translate", "primary_wait", "compose", "reverse_wait"}

\* A worker thread is left to poll another task (a handler at an .await, a
\* newly spawned handler, the gateway's own tasks).
Free == Cardinality({n \in Msgs : pc[n] \in Held}) < workers

Init ==
    /\ proc = "init"
    /\ env \in Envs
    /\ workers \in 1..MaxWorkers
    /\ pc = [m \in Msgs |-> "idle"]
    /\ msg = [m \in Msgs |-> NoMsg]
    /\ chan = [m \in Msgs |-> NoChan]
    /\ config = [m \in Msgs |-> NoConfig]
    /\ primary = [m \in Msgs |-> NoResult]
    /\ reverse = [m \in Msgs |-> NoResult]
    /\ calls = [m \in Msgs |-> << >>]
    /\ inflight = [m \in Msgs |-> 0]
    /\ arm = [m \in Msgs |-> "none"]
    /\ decision = [m \in Msgs |-> None]
    /\ replies = [m \in Msgs |-> << >>]
    /\ logs = [m \in Msgs |-> << >>]

\* main() without the expect on DEEPL_API_KEY.
Start_no_key_check ==
    /\ proc = "init"
    /\ \E info_ok \in BOOLEAN :
         proc' = IF /\ env[".env"] /= Unset
                    /\ env["DISCORD_TOKEN"] /= Unset
                    /\ info_ok
                 THEN "running" ELSE "exited"
    /\ UNCHANGED <<env, workers, pc, msg, chan, config, primary, reverse, calls,
                   inflight, arm, decision, replies, logs>>

\* main(): dotenv, the two credentials, the application info; then the client runs.
Start ==
    /\ proc = "init"
    /\ \E info_ok \in BOOLEAN :
         proc' = IF /\ env[".env"] /= Unset
                    /\ env["DEEPL_API_KEY"] /= Unset
                    /\ env["DISCORD_TOKEN"] /= Unset
                    /\ info_ok
                 THEN "running" ELSE "exited"
    /\ UNCHANGED <<env, workers, pc, msg, chan, config, primary, reverse, calls,
                   inflight, arm, decision, replies, logs>>

\* The gateway delivers a message event; its handler task is spawned.
Receive(m) ==
    /\ proc = "running"
    /\ pc[m] = "idle"
    /\ Free
    /\ \E b \in BOOLEAN, c \in Contents(m) :
         msg' = [msg EXCEPT ![m] = [bot |-> b, content |-> c]]
    /\ pc' = [pc EXCEPT ![m] = "message"]
    /\ UNCHANGED <<proc, env, workers, chan, config, primary, reverse, calls,
                   inflight, arm, decision, replies, logs>>

\* Filter without its second early return: links go on to translation.
Filter_links_pass(m) ==
    /\ pc[m] = "message"
    /\ Free
    /\ pc' = [pc EXCEPT ![m] =
                IF msg[m].bot \/ Len(msg[m].content) = 0 THEN "ignored" ELSE "config"]
    /\ UNCHANGED <<proc, env, workers, msg, chan, config, primary, reverse, calls,
                   inflight, arm, decision, replies, logs>>

\* The two early returns of Handler::message.
Filter(m) ==
    /\ pc[m] = "message"
    /\ Free
    /\ pc' = [pc EXCEPT ![m] =
                IF msg[m].bot \/ Len(msg[m].content) = 0 THEN "ignored"
                ELSE IF UrlParseOk(msg[m].content) THEN "ignored"
                ELSE "config"]
    /\ UNCHANGED <<proc, env, workers, msg, chan, config, primary, reverse, calls,
                   inflight, arm, decision, replies, logs>>

\* get_language_config(..).await, then the credential lookup.
Configure(m) ==
    /\ pc[m] = "config"
    /\ Free
    /\ \E c \in ChannelOutcomes(m) :
         /\ chan' = [chan EXCEPT ![m] = c]
         /\ config' = [config EXCEPT ![m] = get_language_config(env, c)]
         /\ logs' = [logs EXCEPT ![m] = @ \o config_logs(c)]
    /\ pc' = [pc EXCEPT ![m] =
                IF env["DEEPL_API_KEY"] = Unset THEN "panicked" ELSE "translate"]
    /\ UNCHANGED <<proc, env, workers, msg, primary, reverse, calls, inflight,
                   arm, decision, replies>>

\* deepl_translate(&msg.content, &config.target_lang, ..): the request leaves.
PrimaryCall(m) ==
    /\ pc[m] = "translate"
    /\ calls' = [calls EXCEPT ![m] =
                    Append(@, [text |-> msg[m].content,
                               target_lang |-> config[m].target_lang])]
    /\ inflight' = [inflight EXCEPT ![m] = @ + 1]
    /\ pc' = [pc EXCEPT ![m] = "primary_wait"]
    /\ UNCHANGED <<proc, env, workers, msg, chan, config, primary, reverse,
                   arm, decision, replies, logs>>

\* The first call returns: Err goes to the failure notice, Ok to
\* create_reply_message.
PrimaryReturn(m) ==
    /\ pc[m] = "primary_wait"
    /\ \E net \in PrimaryNets(m) :
         LET r == deepl_translate(net)
         IN /\ primary' = [primary EXCEPT ![m] = r]
            /\ IF r.state = "err"
               THEN /\ logs' = [logs EXCEPT ![m] = Append(@, "error: translating message")]
                    /\ pc' = [pc EXCEPT ![m] = "reply_error"]
               ELSE /\ pc' = [pc EXCEPT ![m] = "compose"]
                    /\ UNCHANGED logs
    /\ inflight' = [inflight EXCEPT ![m] = @ - 1]
    /\ UNCHANGED <<proc, env, workers, msg, chan, config, reverse, calls, arm, decision, replies>>

\* The config kept in one place for all handlers: every message is
\* composed with the config message 1 resolved.
Compose_shared_config(m) ==
    /\ pc[m] = "compose"
    /\ LET d == create_reply_message(primary[m], config[1], msg[m].content, NoResult)
       IN CASE d.at = "call" ->
                 /\ calls' = [calls EXCEPT ![m] =
                                Append(@, [text |-> msg[m].content,
                                           target_lang |-> config[1].default_lang])]
                 /\ inflight' = [inflight EXCEPT ![m] = @ + 1]
                 /\ pc' = [pc EXCEPT ![m] = "reverse_wait"]
                 /\ UNCHANGED <<decision, logs>>
            [] d.at = "panic" ->
                 /\ pc' = [pc EXCEPT ![m] = "panicked"]
                 /\ UNCHANGED <<calls, inflight, decision, logs>>
            [] OTHER ->
                 /\ decision' = [decision EXCEPT ![m] = d]
                 /\ pc' = [pc EXCEPT ![m] = IF d.some THEN "reply" ELSE "suppressed"]
                 /\ logs' = [logs EXCEPT ![m] =
                               IF d.some THEN @
                               ELSE @ \o << "warn: multiple translations",
                                            "warn: unexpected translation result" >>]
                 /\ UNCHANGED <<calls, inflight>>
    /\ arm' = [arm EXCEPT ![m] = taken_arm(primary[m], config[1])]
    /\ UNCHANGED <<proc, env, workers, msg, chan, config, primary, reverse, replies>>

\* create_reply_message from its entry to its return, to its panic, or to
\* the deepl_translate call of the arm it took; None is logged by the caller.
Compose(m) ==
    /\ pc[m] = "compose"
    /\ LET d == create_reply_message(primary[m], config[m], msg[m].content, NoResult)
       IN CASE d.at = "call" ->
                 /\ calls' = [calls EXCEPT ![m] =
                                Append(@, [text |-> msg[m].content,
                                           target_lang |-> config[m].default_lang])]
                 /\ inflight' = [inflight EXCEPT ![m] = @ + 1]
                 /\ pc' = [pc EXCEPT ![m] = "reverse_wait"]
                 /\ UNCHANGED <<decision, logs>>
            [] d.at = "panic" ->
                 /\ pc' = [pc EXCEPT ![m] = "panicked"]
                 /\ UNCHANGED <<calls, inflight, decision, logs>>
            [] OTHER ->
                 /\ decision' = [decision EXCEPT ![m] = d]
                 /\ pc' = [pc EXCEPT ![m] = IF d.some THEN "reply" ELSE "suppressed"]
                 /\ logs' = [logs EXCEPT ![m] =
                               IF d.some THEN @
                               ELSE @ \o << "warn: multiple translations",
                                            "warn: unexpected translation result" >>]
                 /\ UNCHANGED <<calls, inflight>>
    /\ arm' = [arm EXCEPT ![m] = taken_arm(primary[m], config[m])]
    /\ UNCHANGED <<proc, env, workers, msg, chan, config, primary, reverse, replies>>

\* The second call sent again when it fails.
ReverseReturn_retry(m) ==
    /\ pc[m] = "reverse_wait"
    /\ \E net \in ReverseNets(m) :
         LET r == deepl_translate(net)
             d == create_reply_message(primary[m], config[m], msg[m].content, r)
         IN IF r.state = "err" /\ Len(calls[m]) < 3
            THEN /\ calls' = [calls EXCEPT ![m] =
                                Append(@, [text |-> msg[m].content,
                                           target_lang |-> config[m].default_lang])]
                 /\ UNCHANGED <<reverse, decision, pc, inflight>>
            ELSE /\ reverse' = [reverse EXCEPT ![m] = r]
                 /\ decision' = [decision EXCEPT ![m] = IF d.at = "panic" THEN @ ELSE d]
                 /\ pc' = [pc EXCEPT ![m] = IF d.at = "panic" THEN "panicked" ELSE "reply"]
                 /\ inflight' = [inflight EXCEPT ![m] = @ - 1]
                 /\ UNCHANGED calls
    /\ UNCHANGED <<proc, env, workers, msg, chan, config, primary, arm, replies, logs>>

\* The call made inside create_reply_message returns; the function runs to
\* its return or to its panic, and the handler takes the Option as it does
\* in Compose.
ReverseReturn(m) ==
    /\ pc[m] = "reverse_wait"
    /\ \E net \in ReverseNets(m) :
         LET r == deepl_translate(net)
             d == create_reply_message(primary[m], config[m], msg[m].content, r)
         IN /\ reverse' = [reverse EXCEPT ![m] = r]
            /\ decision' = [decision EXCEPT ![m] = IF d.at = "panic" THEN @ ELSE d]
            /\ pc' = [pc EXCEPT ![m] = CASE d.at = "panic" -> "panicked"
                                          [] d.some -> "reply"
                                          [] OTHER -> "suppressed"]
    /\ inflight' = [inflight EXCEPT ![m] = @ - 1]
    /\ UNCHANGED <<proc, env, workers, msg, chan, config, primary, calls, arm, replies, logs>>

\* A failed delivery tried once more.
ReplyTranslation_retry(m) ==
    /\ pc[m] = "reply"
    /\ Free
    /\ \E delivered \in Deliveries(m) :
         /\ replies' = [replies EXCEPT ![m] =
                          Append(@, [text |-> decision[m].text, delivered |-> delivered])]
         /\ logs' = [logs EXCEPT ![m] =
                       IF delivered THEN @
                       ELSE Append(@, "error: failed to reply translation result")]
         /\ pc' = [pc EXCEPT ![m] =
                     IF ~delivered /\ Len(replies[m]) = 0 THEN "reply" ELSE "finished"]
    /\ UNCHANGED <<proc, env, workers, msg, chan, config, primary, reverse, calls,
                   inflight, arm, decision>>

\* msg.reply(&ctx.http, reply_message).await
ReplyTranslation(m) ==
    /\ pc[m] = "reply"
    /\ Free
    /\ \E delivered \in Deliveries(m) :
         /\ replies' = [replies EXCEPT ![m] =
                          Append(@, [text |-> decision[m].text, delivered |-> delivered])]
         /\ logs' = [logs EXCEPT ![m] =
                       IF delivered THEN @
                       ELSE Append(@, "error: failed to reply translation result")]
    /\ pc' = [pc EXCEPT ![m] = "finished"]
    /\ UNCHANGED <<proc, env, workers, msg, chan, config, primary, reverse, calls,
                   inflight, arm, decision>>

\* The Err arm logging the error without telling the channel.
ReplyFailure_log_only(m) ==
    /\ pc[m] = "reply_error"
    /\ Free
    /\ pc' = [pc EXCEPT ![m] = "finished"]
    /\ UNCHANGED <<proc, env, workers, msg, chan, config, primary, reverse, calls,
                   inflight, arm, decision, replies, logs>>

\* msg.reply(&ctx.http, "Failed to translate using DeepL").await
ReplyFailure(m) ==
    /\ pc[m] = "reply_error"
    /\ Free
    /\ \E delivered \in Deliveries(m) :
         /\ replies' = [replies EXCEPT ![m] =
                          Append(@, [text |-> FailNotice, delivered |-> delivered])]
         /\ logs' = [logs EXCEPT ![m] =
                       IF delivered THEN @
                       ELSE Append(@, "error: failed to reply error message")]
    /\ pc' = [pc EXCEPT ![m] = "finished"]
    /\ UNCHANGED <<proc, env, workers, msg, chan, config, primary, reverse, calls,
                   inflight, arm, decision>>

\* One step of the handler task of message m.
Step(m) ==
    \/ Receive(m)
    \/ Filter(m)
    \/ Configure(m)
    \/ PrimaryCall(m)
    \/ PrimaryReturn(m)
    \/ Compose(m)
    \/ ReverseReturn(m)
    \/ ReplyTranslation(m)
    \/ ReplyFailure(m)

Next ==
    \/ Start
    \/ \E m \in Msgs : Step(m)

Spec == Init /\ [][Next]_vars

\* The steps of message m's handler that wait for no translate response.
Local(m) ==
    \/ Receive(m)
    \/ Filter(m)
    \/ Configure(m)
    \/ PrimaryCall(m)
    \/ Compose(m)
    \/ ReplyTranslation(m)
    \/ ReplyFailure(m)

\* ureq::post(..).send_json(..) returning to the handler of message m.
Returns(m) == PrimaryReturn(m) \/ ReverseReturn(m)

\* The runtime polls every task that a free worker thread can run, and the
\* platform answers; the translate calls of message 1 have no timeout and
\* may never return, those of the other messages return.
StallSpec ==
    /\ Spec
    /\ WF_vars(Start)
    /\ \A m \in Msgs : WF_vars(Local(m))
    /\ \A m \in Msgs \ {1} : WF_vars(Returns(m))

\* The same scheduling with every translate call returning.
FairSpec ==
    /\ Spec
    /\ WF_vars(Start)
    /\ \A m \in Msgs : WF_vars(Local(m)) /\ WF_vars(Returns(m))

----------------------------------------------------------------------------
(* Properties *)

Final == {"ignored", "suppressed", "finished", "panicked"}

\* The message passes none of the three filters of Handler::message.
NotCandidate(m) ==
    \/ msg[m].bot
    \/ msg[m].content = << >>
    \/ UrlParseOk(msg[m].content)

\* C1: a message from a bot, an empty message and a message whose content
\* parses as a URL get no translate call and no reply, whatever else is
\* being handled: the handler stops at its filters.
C1_FilteredMessagesAreIgnored ==
    \A m \in Msgs :
        (pc[m] /= "idle" /\ NotCandidate(m)) =>
            /\ pc[m] \in {"message", "ignored"}
            /\ calls[m] = << >>
            /\ inflight[m] = 0
            /\ replies[m] = << >>

\* A link from a person and a text from a bot have both been dropped.
C1_Witness ==
    /\ pc[1] = "ignored" /\ ~msg[1].bot /\ msg[1].content = << "a", ":", "b" >>
    /\ pc[2] = "ignored" /\ msg[2].bot /\ msg[2].content /= << >>

\* C2: when the first translate call fails (no connection, a status code, a
\* body that does not decode) the handler makes no second translate call, does
\* not panic, and calls msg.reply once, with the fixed notice; the process
\* keeps running and every other unfinished message can take its next step
\* (a worker thread being free for it).
C2_PrimaryFailureGivesOneNotice ==
    \A m \in Msgs :
        primary[m].state = "err" =>
            /\ Len(calls[m]) = 1
            /\ inflight[m] = 0
            /\ pc[m] \in {"reply_error", "finished"}
            /\ pc[m] = "reply_error" => replies[m] = << >>
            /\ pc[m] = "finished" =>
                  /\ Len(replies[m]) = 1
                  /\ replies[m][1].text = << "Failed to translate using DeepL" >>
            /\ proc = "running"
            /\ \A n \in Msgs \ {m} : (pc[n] \notin Final /\ Free) => ENABLED Step(n)

\* Message 1 failed at the first call and was answered with the notice;
\* message 2 was translated and answered all the same.
C2_Witness ==
    /\ primary[1].state = "err" /\ pc[1] = "finished"
    /\ replies[1] = << [text |-> FailNotice, delivered |-> TRUE] >>
    /\ primary[2].state = "ok" /\ pc[2] = "finished"
    /\ Len(replies[2]) = 1 /\ replies[2][1].delivered
    /\ replies[2][1].text /= FailNotice

\* create_reply_message has compared the single translation of an Ok
\* first response with the config.
Compared(m) ==
    /\ primary[m].state = "ok"
    /\ Len(primary[m].translations) = 1
    /\ pc[m] /= "compose"

Detected(m) == primary[m].translations[1].detected_source_language

PrimaryRequest(m) == [text |-> msg[m].content, target_lang |-> config[m].target_lang]
ReverseRequest(m) == [text |-> msg[m].content, target_lang |-> config[m].default_lang]

\* The function returned Some(text) and the handler is at, or past, msg.reply.
Returned(m, text) ==
    /\ pc[m] \in {"reply", "finished"}
    /\ decision[m] = Some(text)
    /\ pc[m] = "finished" => Len(replies[m]) = 1 /\ replies[m][1].text = text

\* C3 as stated: a single translation whose detected source language is
\* default_lang gives the one line `target_lang: text` and no second call.
C3_Original ==
    \A m \in Msgs :
        (Compared(m) /\ Detected(m) = config[m].default_lang) =>
            /\ calls[m] = << PrimaryRequest(m) >>
            /\ Returned(m, << BQ, config[m].target_lang, ": ",
                              primary[m].translations[1].text, BQ >>)

\* C3, amended: a single translation whose detected source language is
\* default_lang and is not target_lang gives the one line
\* `target_lang: text`, and the only translate call is the first one.
C3_NormalCase ==
    \A m \in Msgs :
        (/\ Compared(m)
         /\ Detected(m) = config[m].default_lang
         /\ Detected(m) /= config[m].target_lang) =>
            /\ arm[m] = "normal"
            /\ calls[m] = << PrimaryRequest(m) >>
            /\ inflight[m] = 0
            /\ Returned(m, << BQ, config[m].target_lang, ": ",
                              primary[m].translations[1].text, BQ >>)

\* Detected EN on a channel with default EN and target JA: answered `JA: T`.
C3_Witness ==
    /\ pc[1] = "finished"
    /\ config[1] = [default_lang |-> "EN", target_lang |-> "JA"]
    /\ primary[1] = Ok(<< Entry("T", "EN") >>)
    /\ calls[1] = << [text |-> msg[1].content, target_lang |-> "JA"] >>
    /\ replies[1] = << [text |-> << BQ, "JA", ": ", "T", BQ >>, delivered |-> TRUE] >>

\* C4: a single translation whose detected source language is target_lang
\* makes the composer send one more request, the original text to
\* default_lang; Ok gives the line `default_lang: ` reverse text, Err gives
\* the notice naming default_lang, and no third request is sent.
C4_ReverseOnly ==
    \A m \in Msgs :
        (Compared(m) /\ Detected(m) = config[m].target_lang) =>
            /\ calls[m] = << PrimaryRequest(m), ReverseRequest(m) >>
            /\ reverse[m].state = "ok" =>
                  /\ pc[m] \in {"reply", "finished"}
                  /\ Returned(m, << BQ, config[m].default_lang, ": ", BQ, " ",
                                    reverse[m].translations[1].text >>)
            /\ reverse[m].state = "err" =>
                  Returned(m, << "Failed to translate ", BQ >> \o msg[m].content
                                 \o << BQ, " to ", BQ, config[m].default_lang, BQ >>)

\* C5: a single translation whose detected source language is neither
\* target_lang nor default_lang makes the composer send one more request,
\* the original text to default_lang, and on Ok the reply is the target_lang
\* line, then the default_lang line, then the detected language.
C5_ThirdLanguage ==
    \A m \in Msgs :
        (/\ Compared(m)
         /\ Detected(m) /= config[m].target_lang
         /\ Detected(m) /= config[m].default_lang) =>
            /\ calls[m] = << PrimaryRequest(m), ReverseRequest(m) >>
            /\ reverse[m].state = "ok" =>
                  /\ pc[m] \in {"reply", "finished"}
                  /\ Returned(m, << BQ, config[m].target_lang, ": ", BQ, " ",
                                    primary[m].translations[1].text, " \n",
                                    BQ, config[m].default_lang, ": ", BQ, " ",
                                    reverse[m].translations[1].text,
                                    " \n(translated from ", BQ, Detected(m), BQ, ")" >>)

\* C6: an Ok first response with more than one translation is suppressed:
\* the function returns None without a request of its own, and the handler
\* only logs.
C6_MultipleTranslationsSuppressed ==
    \A m \in Msgs :
        (primary[m].state = "ok" /\ Len(primary[m].translations) > 1
            /\ pc[m] /= "compose") =>
            /\ pc[m] = "suppressed"
            /\ decision[m] = None
            /\ calls[m] = << PrimaryRequest(m) >>
            /\ inflight[m] = 0
            /\ replies[m] = << >>

\* A response with two translations has been dropped.
C6_Witness ==
    /\ pc[1] = "suppressed"
    /\ Len(primary[1].translations) = 2
    /\ replies[1] = << >>

\* get_language_config has returned for message m.
Resolved(m) == chan[m].kind /= "none"

\* No topic to read, or a topic that is not the JSON of a config.
AbsentOrMalformed(c) ==
    \/ c.kind \in {"lookup_failed", "private", "no_topic"}
    \/ ~c.json
    \/ c.default_lang.t /= "str"
    \/ c.target_lang.t /= "str"

\* C7: the config get_language_config returns has a non-empty default_lang
\* and a non-empty target_lang whatever the topic is, and is the process
\* defaults when the topic is absent or malformed.
C7_ConfigFullyPopulated ==
    \A m \in Msgs :
        Resolved(m) =>
            /\ config[m].default_lang /= ""
            /\ config[m].target_lang /= ""
            /\ AbsentOrMalformed(chan[m]) =>
                  config[m] = [default_lang |-> IF env["DEFAULT_LANGUAGE"] = Unset
                                                THEN "JA" ELSE env["DEFAULT_LANGUAGE"],
                               target_lang  |-> IF env["TARGET_LANGUAGE"] = Unset
                                                THEN "JA" ELSE env["TARGET_LANGUAGE"]]

\* C8: a language code of the resolved config is upper-case where it is
\* used: as the target of a translate request, and in the comparison with
\* the detected source language.
C8_CodesUpperCase ==
    \A m \in Msgs :
        /\ \A i \in 1..Len(calls[m]) :
              calls[m][i].target_lang = Upper(calls[m][i].target_lang)
        /\ Compared(m) =>
              /\ config[m].target_lang = Upper(config[m].target_lang)
              /\ config[m].default_lang = Upper(config[m].default_lang)

\* C9: the arm depends on the three codes up to letter case: two messages
\* whose detected language, target_lang and default_lang agree once
\* upper-cased take the same arm.
C9_ArmIgnoresCase ==
    \A m, n \in Msgs :
        (/\ Compared(m) /\ Compared(n)
         /\ Upper(Detected(m)) = Upper(Detected(n))
         /\ Upper(config[m].target_lang) = Upper(config[n].target_lang)
         /\ Upper(config[m].default_lang) = Upper(config[n].default_lang)) =>
            arm[m] = arm[n]

\* C10: a message gets at most two translate requests, the first to
\* target_lang and the second to default_lang; the second is sent only once
\* the first has returned Ok, and at most one is outstanding at any time.
C10_AtMostTwoSequentialCalls ==
    \A m \in Msgs :
        /\ Len(calls[m]) <= 2
        /\ inflight[m] \in {0, 1}
        /\ Len(calls[m]) >= 1 => calls[m][1] = PrimaryRequest(m)
        /\ Len(calls[m]) = 2 =>
              /\ primary[m].state = "ok"
              /\ calls[m][2] = ReverseRequest(m)
        /\ (Len(calls[m]) = 1 /\ inflight[m] = 1) => primary[m].state = "none"
        /\ (Len(calls[m]) = 2 /\ inflight[m] = 1) => reverse[m].state = "none"

\* The second request of message 1 is outstanding, after its first returned Ok.
C10_Witness ==
    /\ Len(calls[1]) = 2
    /\ inflight[1] = 1
    /\ primary[1].state = "ok"
    /\ pc[1] = "reverse_wait"

\* C11: a failed second translate call still ends in a reply: the function
\* returns Some with a notice that names default_lang, which is neither None
\* nor the fixed notice of a failed first call, and the handler replies with it.
C11_ReverseFailureStillReplies ==
    \A m \in Msgs :
        reverse[m].state = "err" =>
            /\ arm[m] \in {"both", "reverse"}
            /\ pc[m] \in {"reply", "finished"}
            /\ decision[m].some
            /\ decision[m].text /= << "Failed to translate using DeepL" >>
            /\ decision[m].text[1] \in {"Failed to translate to ", "Failed to translate "}
            /\ decision[m].text[Len(decision[m].text) - 1] = config[m].default_lang
            /\ pc[m] = "finished" =>
                  /\ Len(replies[m]) = 1
                  /\ replies[m][1].text = decision[m].text

\* The second call of message 1 failed in the reverse-only arm and the
\* notice naming EN was delivered.
C11_Witness ==
    /\ reverse[1].state = "err"
    /\ arm[1] = "reverse"
    /\ config[1].default_lang = "EN"
    /\ pc[1] = "finished"
    /\ replies[1][1].delivered
    /\ replies[1][1].text[Len(replies[1][1].text) - 1] = "EN"

\* The handler of message m has called msg.reply.
Replied(m) == replies[m] /= << >>

\* C12: msg.reply is called at most once for a message, as the handler's
\* last act; a failed delivery leaves an error event as the last log entry,
\* and after the call nothing more happens for the message: no other reply,
\* no translate request, no further step.
C12_OneDeliveryAttempt ==
    /\ [](\A m \in Msgs :
            /\ Len(replies[m]) <= 1
            /\ Replied(m) =>
                  /\ pc[m] = "finished"
                  /\ inflight[m] = 0
                  /\ ~replies[m][1].delivered =>
                        /\ logs[m] /= << >>
                        /\ logs[m][Len(logs[m])] \in
                              {"error: failed to reply translation result",
                               "error: failed to reply error message"})
    /\ [][\A m \in Msgs :
            Replied(m) =>
                /\ replies'[m] = replies[m]
                /\ calls'[m] = calls[m]
                /\ logs'[m] = logs[m]
                /\ pc'[m] = pc[m]]_vars

\* The one reply of message 1, a translation, could not be delivered; the
\* handler logged that and ended.
C12_Witness ==
    /\ pc[1] = "finished"
    /\ primary[1].state = "ok"
    /\ Len(replies[1]) = 1
    /\ ~replies[1][1].delivered
    /\ logs[1][Len(logs[1])] = "error: failed to reply translation result"

\* Everything the handler of message m holds.
MsgState(m) ==
    << pc[m], msg[m], chan[m], config[m], primary[m], reverse[m], calls[m],
       inflight[m], arm[m], decision[m], replies[m], logs[m] >>

\* What message m's own inputs give: its content and author flag, the
\* outcome of its channel lookup, the Results of its own translate calls.
OwnOutcome(m) ==
    IF NotCandidate(m) THEN [pc |-> "ignored", calls |-> << >>, texts |-> << >>]
    ELSE IF primary[m].state = "err"
    THEN [pc |-> "finished", calls |-> << PrimaryRequest(m) >>, texts |-> << FailNotice >>]
    ELSE LET d  == create_reply_message(primary[m], config[m], msg[m].content, reverse[m])
             cs == IF reverse[m].state = "none"
                   THEN << PrimaryRequest(m) >>
                   ELSE << PrimaryRequest(m), ReverseRequest(m) >>
         IN CASE d.at = "panic" -> [pc |-> "panicked", calls |-> cs, texts |-> << >>]
              [] d.some         -> [pc |-> "finished", calls |-> cs, texts |-> << d.text >>]
              [] OTHER          -> [pc |-> "suppressed", calls |-> cs, texts |-> << >>]

\* C13: whatever the interleaving, the outcome of a message (ignored,
\* suppressed, the reply text, or the panic of its own task) is the one its
\* own content, its own channel's config and the Results of its own translate
\* calls give; a step of one handler changes nothing another handler holds,
\* and an outcome once reached stays.
C13_MessagesAreIsolated ==
    /\ [](\A m \in Msgs :
            /\ Resolved(m) => config[m] = get_language_config(env, chan[m])
            /\ pc[m] \in Final =>
                  /\ pc[m] = OwnOutcome(m).pc
                  /\ calls[m] = OwnOutcome(m).calls
                  /\ [i \in 1..Len(replies[m]) |-> replies[m][i].text] = OwnOutcome(m).texts)
    /\ [][\A m, n \in Msgs :
            (m /= n /\ MsgState(m)' /= MsgState(m)) => MsgState(n)' = MsgState(n)]_vars
    /\ [][\A m \in Msgs : pc[m] \in Final => MsgState(m)' = MsgState(m)]_vars

\* Message 1's task panicked and message 2's first call failed, each on its
\* own; neither changed the other's outcome.
C13_Witness ==
    /\ pc[1] = "panicked" /\ primary[1].state = "ok"
    /\ pc[2] = "finished" /\ primary[2].state = "err"
    /\ replies[1] = << >>
    /\ replies[2] = << [text |-> FailNotice, delivered |-> TRUE] >>

\* C14: a message is handled only in a process that found both credentials
\* at startup, so env::var("DEEPL_API_KEY").unwrap() in the handler never
\* panics: a handler that panicked had sent its translate request before.
C14_CredentialPresentWhenHandling ==
    /\ proc = "running" =>
          /\ env["DEEPL_API_KEY"] /= Unset
          /\ env["DISCORD_TOKEN"] /= Unset
    /\ \A m \in Msgs :
          /\ pc[m] /= "idle" => proc = "running"
          /\ Resolved(m) => pc[m] /= "panicked" \/ calls[m] /= << >>

\* A candidate message has passed the credential lookup.
C14_Witness ==
    /\ pc[1] = "translate"
    /\ Resolved(1)
    /\ env["DEEPL_API_KEY"] = "set"

\* C15: in the third-language arm a failed second call gives the notice
\* "Failed to translate to `default_lang`" and nothing else: the text of the
\* first translation is not in the reply.
C15_ThirdLanguageFailureDropsPrimary ==
    \A m \in Msgs :
        (/\ Compared(m)
         /\ Detected(m) /= config[m].target_lang
         /\ Detected(m) /= config[m].default_lang
         /\ reverse[m].state = "err") =>
            /\ Returned(m, << "Failed to translate to ", BQ, config[m].default_lang, BQ >>)
            /\ \A i \in 1..Len(decision[m].text) :
                  decision[m].text[i] /= primary[m].translations[1].text

\* Detected NL on an EN/JA channel, second call failed: the reply delivered
\* is the notice naming EN.
C15_Witness ==
    /\ pc[1] = "finished"
    /\ config[1] = [default_lang |-> "EN", target_lang |-> "JA"]
    /\ primary[1] = Ok(<< Entry("T", "NL") >>)
    /\ reverse[1].state = "err"
    /\ replies[1] = << [text |-> << "Failed to translate to ", BQ, "EN", BQ >>,
                        delivered |-> TRUE] >>

\* The handling of message m ended in one of the three outcomes of the
\* handler, or faulted (C17).
Left(m) == pc[m] \in Final

\* C16: while the translate calls of message 1 never return, every other
\* message that has arrived, and whose own calls return, is eventually
\* handled: replied to, suppressed or ignored (or faulted as in C17).
C16_StallDelaysOnlyItsMessage ==
    \A m \in Msgs \ {1} : (pc[m] = "message") ~> Left(m)

\* C17: an Ok first response, whatever the number of its entries and of the
\* entries of an Ok second response, never makes create_reply_message fault.
C17_ComposeNeverFaults ==
    \A m \in Msgs : primary[m].state = "ok" => pc[m] /= "panicked"

\* C18: for a single entry exactly one of the three arms is taken, the
\* target_lang test first: detected = target_lang gives the reverse arm and
\* its one call to default_lang even when default_lang is the same code;
\* the arm without a second call is taken only with default_lang different
\* from target_lang, so never with the defaults of the process.
C18_ArmsExclusiveTargetFirst ==
    \A m \in Msgs :
        Compared(m) =>
            /\ arm[m] \in {"both", "reverse", "normal"}
            /\ arm[m] = "reverse" <=> Detected(m) = config[m].target_lang
            /\ arm[m] = "normal" <=>
                  /\ Detected(m) = config[m].default_lang
                  /\ Detected(m) /= config[m].target_lang
            /\ arm[m] = "both" <=>
                  /\ Detected(m) /= config[m].target_lang
                  /\ Detected(m) /= config[m].default_lang
            /\ arm[m] = "normal" =>
                  /\ config[m].target_lang /= config[m].default_lang
                  /\ calls[m] = << PrimaryRequest(m) >>
            /\ arm[m] /= "normal" =>
                  calls[m] = << PrimaryRequest(m), ReverseRequest(m) >>
            /\ config[m] = default_config(env) /\ env["DEFAULT_LANGUAGE"] = Unset
                  => arm[m] /= "normal"

\* With the defaults of the process (JA and JA) and JA detected the reverse
\* arm ran: a second call to JA was made and its text is in the reply.
C18_Witness ==
    /\ pc[1] = "finished"
    /\ env["DEFAULT_LANGUAGE"] = Unset
    /\ config[1] = [default_lang |-> "JA", target_lang |-> "JA"]
    /\ Compared(1)
    /\ Detected(1) = "JA"
    /\ arm[1] = "reverse"
    /\ calls[1] = << PrimaryRequest(1), ReverseRequest(1) >>
    /\ reverse[1].state = "ok"
    /\ Len(replies[1]) = 1

\* C19: the handling of a message ends ignored, suppressed with no reply,
\* or with exactly one reply attempted; it ends in no other way.
C19_EndsInOneOutcome ==
    \A m \in Msgs :
        Left(m) =>
            \/ pc[m] = "ignored" /\ replies[m] = << >>
            \/ pc[m] = "suppressed" /\ replies[m] = << >>
            \/ pc[m] = "finished" /\ Len(replies[m]) = 1

====
